---- MODULE Spec2Model ----
(***************************************************************************)
(* Model of bootstrap/docker.go: the deprecated Docker / Docker Compose    *)
(* integration of the job bootstrap.  The state is the shell environment   *)
(* (sh.Env), the position of the running call, the external commands the   *)
(* call has issued through sh.Run with their results, the warnings it has  *)
(* printed, and the containers and images the issued commands left on the  *)
(* docker host.                                                            *)
(***************************************************************************)
EXTENDS Naturals, Sequences, FiniteSets, TLC

VARIABLES
    env,        \* sh.Env: a map from variable name to value
    pc,         \* position of the call in progress, "idle" between calls
    op,         \* the call in progress or last completed: "none", "run", "teardown"
    scriptPath, \* the scriptPath argument of the current or last run call
    env0,       \* the environment when the current or last call was entered
    cmds,       \* argv of every sh.Run of the current or last call, in order
    results,    \* result of each of these commands: "ok" or "fail"
    warns,      \* sh.Warningf calls of the current or last call
    ret,        \* return value of the last call, "pending" while one runs
    prev,       \* the call completed before the current or last one
    sameEnv,    \* the current or last call was entered with the environment of prev
    resources,  \* containers and images on the docker host
    removed,    \* what the current or last call removed from the docker host
    envChanges, \* number of changes the pipeline made to the environment
    calls,      \* number of calls entered
    composePaths \* the paths BUILDKITE_DOCKER_COMPOSE_FILE was written from,
                 \* chunk by chunk; <<>> when it was not written from a list

vars == <<env, pc, op, scriptPath, env0, cmds, results, warns, ret, prev, sameEnv,
          resources, removed, envChanges, calls, composePaths>>

(***************************************************************************)
(* Bounds of the model.                                                    *)
(***************************************************************************)
MaxEnvChanges == 2
MaxCalls == 3
MaxChunks == 2
MaxPathsPerChunk == 2

(***************************************************************************)
(* Values.                                                                 *)
(***************************************************************************)
JobIds == {"42", "abc-123-def"}

\* Values the pipeline gives to the variables the integration reads.
EnvChoices ==
    [ BUILDKITE_DOCKER_COMPOSE_CONTAINER     |-> {"app"},
      BUILDKITE_DOCKER_COMPOSE_FILE          |-> {"", "a.yml:b.yml c.yml"},
      BUILDKITE_DOCKER                       |-> {"true"},
      BUILDKITE_DOCKER_FILE                  |-> {"", "ci.Dockerfile"},
      BUILDKITE_DOCKER_COMPOSE_BUILD_ALL     |-> {"true", "false"},
      BUILDKITE_DOCKER_COMPOSE_LEAVE_VOLUMES |-> {"true"},
      BUILDKITE_AGENT_DEBUG                  |-> {"true"} ]

ConfigVars == DOMAIN EnvChoices

Wd == "/wd"
ScriptPaths == {"/wd/script.sh", "/tmp/hook.sh"}

ErrNoDockerEnv == "Failed to find any docker env"
ErrRel == "Rel: can't make path relative"
ErrExit == "exit status 1"

(***************************************************************************)
(* sh.Env                                                                  *)
(***************************************************************************)
Exists(e, k) == k \in DOMAIN e

\* Get returns the value and whether it is present; the callers that drop
\* the flag see the empty string for a missing key.
Get(e, k) == IF k \in DOMAIN e THEN e[k] ELSE ""

Set(e, k, v) == [x \in DOMAIN e \cup {k} |-> IF x = k THEN v ELSE e[x]]

Remove(e, k) == [x \in DOMAIN e \ {k} |-> e[x]]

GetBool(e, k, default) ==
    CASE Get(e, k) \in {"true", "1", "on", "enabled"}    -> TRUE
      [] Get(e, k) \in {"false", "0", "off", "disabled"} -> FALSE
      [] OTHER                                           -> default

(***************************************************************************)
(* Strings                                                                 *)
(***************************************************************************)
Char(s, i) == SubSeq(s, i, i)

HasPrefix(s, p) == Len(s) >= Len(p) /\ SubSeq(s, 1, Len(p)) = p

\* strings.Replace(s, old, "", -1) for a one-character old
RECURSIVE RemoveAll(_, _)
RemoveAll(s, old) ==
    IF Len(s) = 0 THEN ""
    ELSE IF Char(s, 1) = old THEN RemoveAll(SubSeq(s, 2, Len(s)), old)
    ELSE Char(s, 1) \o RemoveAll(SubSeq(s, 2, Len(s)), old)

IsSpace(c) == c \in {" ", "\t", "\n", "\r"}

\* strings.Fields: the maximal runs of non-space characters, in order
RECURSIVE FieldsFrom(_, _, _)
FieldsFrom(s, i, cur) ==
    IF i > Len(s) THEN (IF cur = "" THEN <<>> ELSE <<cur>>)
    ELSE IF IsSpace(Char(s, i))
         THEN (IF cur = "" THEN <<>> ELSE <<cur>>) \o FieldsFrom(s, i + 1, "")
         ELSE FieldsFrom(s, i + 1, cur \o Char(s, i))

Fields(s) == FieldsFrom(s, 1, "")

\* strings.Split(s, sep) for a one-character sep: always at least one piece,
\* empty pieces are kept
RECURSIVE SplitFrom(_, _, _, _)
SplitFrom(s, sep, i, cur) ==
    IF i > Len(s) THEN <<cur>>
    ELSE IF Char(s, i) = sep
         THEN <<cur>> \o SplitFrom(s, sep, i + 1, "")
         ELSE SplitFrom(s, sep, i + 1, cur \o Char(s, i))

Split(s, sep) == SplitFrom(s, sep, 1, "")

\* filepath.Rel(base, targ) on slash-separated paths with base an absolute,
\* clean, one-element directory: an error when targ is not absolute too
Rel(base, targ) ==
    IF ~HasPrefix(targ, "/") THEN [err |-> TRUE, path |-> ""]
    ELSE IF targ = base THEN [err |-> FALSE, path |-> "."]
    ELSE IF HasPrefix(targ, base \o "/")
         THEN [err |-> FALSE, path |-> SubSeq(targ, Len(base) + 2, Len(targ))]
         ELSE [err |-> FALSE, path |-> ".." \o targ]

(***************************************************************************)
(* Detection                                                               *)
(***************************************************************************)
dockerEnv ==
    << "BUILDKITE_DOCKER_COMPOSE_CONTAINER",
       "BUILDKITE_DOCKER_COMPOSE_FILE",
       "BUILDKITE_DOCKER",
       "BUILDKITE_DOCKER_FILE",
       "BUILDKITE_DOCKER_COMPOSE_BUILD_ALL",
       "BUILDKITE_DOCKER_COMPOSE_LEAVE_VOLUMES" >>

hasDeprecatedDockerIntegration(e) ==
    \E i \in 1..Len(dockerEnv) : Exists(e, dockerEnv[i])

\* Mutant: the switch falls through to Docker mode when no case matches.
IntegrationMode_DefaultDocker(e) ==
    CASE Exists(e, "BUILDKITE_DOCKER_COMPOSE_CONTAINER") ->
            [kind |-> "DockerCompose", flag |-> "BUILDKITE_DOCKER_COMPOSE_CONTAINER"]
      [] Exists(e, "BUILDKITE_DOCKER_COMPOSE_FILE") ->
            [kind |-> "Misconfigured", flag |-> "BUILDKITE_DOCKER_COMPOSE_FILE"]
      [] Exists(e, "BUILDKITE_DOCKER_COMPOSE_BUILD_ALL") ->
            [kind |-> "Misconfigured", flag |-> "BUILDKITE_DOCKER_COMPOSE_BUILD_ALL"]
      [] Exists(e, "BUILDKITE_DOCKER_COMPOSE_LEAVE_VOLUMES") ->
            [kind |-> "Misconfigured", flag |-> "BUILDKITE_DOCKER_COMPOSE_LEAVE_VOLUMES"]
      [] OTHER ->
            [kind |-> "Docker", flag |-> "BUILDKITE_DOCKER"]

\* Mutant: the BUILDKITE_DOCKER case is tested before the compose case.
IntegrationMode_DockerFirst(e) ==
    CASE Exists(e, "BUILDKITE_DOCKER") ->
            [kind |-> "Docker", flag |-> "BUILDKITE_DOCKER"]
      [] Exists(e, "BUILDKITE_DOCKER_COMPOSE_CONTAINER") ->
            [kind |-> "DockerCompose", flag |-> "BUILDKITE_DOCKER_COMPOSE_CONTAINER"]
      [] Exists(e, "BUILDKITE_DOCKER_COMPOSE_FILE") ->
            [kind |-> "Misconfigured", flag |-> "BUILDKITE_DOCKER_COMPOSE_FILE"]
      [] Exists(e, "BUILDKITE_DOCKER_COMPOSE_BUILD_ALL") ->
            [kind |-> "Misconfigured", flag |-> "BUILDKITE_DOCKER_COMPOSE_BUILD_ALL"]
      [] Exists(e, "BUILDKITE_DOCKER_COMPOSE_LEAVE_VOLUMES") ->
            [kind |-> "Misconfigured", flag |-> "BUILDKITE_DOCKER_COMPOSE_LEAVE_VOLUMES"]
      [] OTHER ->
            [kind |-> "None", flag |-> ""]

\* Mutant: the switch has no case for BUILDKITE_DOCKER_COMPOSE_LEAVE_VOLUMES.
IntegrationMode_NoLeaveVolumesCase(e) ==
    CASE Exists(e, "BUILDKITE_DOCKER_COMPOSE_CONTAINER") ->
            [kind |-> "DockerCompose", flag |-> "BUILDKITE_DOCKER_COMPOSE_CONTAINER"]
      [] Exists(e, "BUILDKITE_DOCKER") ->
            [kind |-> "Docker", flag |-> "BUILDKITE_DOCKER"]
      [] Exists(e, "BUILDKITE_DOCKER_COMPOSE_FILE") ->
            [kind |-> "Misconfigured", flag |-> "BUILDKITE_DOCKER_COMPOSE_FILE"]
      [] Exists(e, "BUILDKITE_DOCKER_COMPOSE_BUILD_ALL") ->
            [kind |-> "Misconfigured", flag |-> "BUILDKITE_DOCKER_COMPOSE_BUILD_ALL"]
      [] OTHER ->
            [kind |-> "None", flag |-> ""]

\* The switch of runDeprecatedDockerIntegration: the first case whose
\* variable exists is taken.
IntegrationMode(e) ==
    CASE Exists(e, "BUILDKITE_DOCKER_COMPOSE_CONTAINER") ->
            [kind |-> "DockerCompose", flag |-> "BUILDKITE_DOCKER_COMPOSE_CONTAINER"]
      [] Exists(e, "BUILDKITE_DOCKER") ->
            [kind |-> "Docker", flag |-> "BUILDKITE_DOCKER"]
      [] Exists(e, "BUILDKITE_DOCKER_COMPOSE_FILE") ->
            [kind |-> "Misconfigured", flag |-> "BUILDKITE_DOCKER_COMPOSE_FILE"]
      [] Exists(e, "BUILDKITE_DOCKER_COMPOSE_BUILD_ALL") ->
            [kind |-> "Misconfigured", flag |-> "BUILDKITE_DOCKER_COMPOSE_BUILD_ALL"]
      [] Exists(e, "BUILDKITE_DOCKER_COMPOSE_LEAVE_VOLUMES") ->
            [kind |-> "Misconfigured", flag |-> "BUILDKITE_DOCKER_COMPOSE_LEAVE_VOLUMES"]
      [] OTHER ->
            [kind |-> "None", flag |-> ""]

\* sh.Warningf formats and arguments
warnNotSet(k1, k2) == [fmt |-> "is set, but without, which it requires", args |-> <<k1, k2>>]

warnDeprecated(k) == [fmt |-> "is set, which is deprecated", args |-> <<k>>]

relativePathToDot(p) == "." \o "/" \o Rel(Wd, p).path

(***************************************************************************)
(* Names and argument lists                                                *)
(***************************************************************************)
dockerContainer(e) == "buildkite_" \o Get(e, "BUILDKITE_JOB_ID") \o "_container"

dockerImage(e) == "buildkite_" \o Get(e, "BUILDKITE_JOB_ID") \o "_image"

\* Mutant: an empty BUILDKITE_DOCKER_FILE is not replaced by the default.
dockerFile_EmptyKept(e) ==
    IF Exists(e, "BUILDKITE_DOCKER_FILE") THEN e["BUILDKITE_DOCKER_FILE"] ELSE "Dockerfile"

dockerFile(e) ==
    IF Get(e, "BUILDKITE_DOCKER_FILE") = "" THEN "Dockerfile"
    ELSE Get(e, "BUILDKITE_DOCKER_FILE")

DockerBuildCmd(e) ==
    <<"docker", "build", "-f", dockerFile(e), "-t", dockerImage(e), ".">>

DockerRunCmd(e, script) ==
    <<"docker", "run", "--name", dockerContainer(e), dockerImage(e), script>>

\* Mutant: the volumes flag is left out.
DockerRmCmd_NoVolumes(container) == <<"docker", "rm", "-f", container>>

DockerRmCmd(container) == <<"docker", "rm", "-f", "-v", container>>

\* strings.Replace(s, old, "", 1)
RECURSIVE RemoveFirst(_, _)
RemoveFirst(s, old) ==
    IF Len(s) = 0 THEN ""
    ELSE IF Char(s, 1) = old THEN SubSeq(s, 2, Len(s))
    ELSE Char(s, 1) \o RemoveFirst(SubSeq(s, 2, Len(s)), old)

\* Mutant: only the first hyphen is replaced.
projectName_FirstHyphenOnly(e) ==
    RemoveFirst("buildkite" \o Get(e, "BUILDKITE_JOB_ID"), "-")

projectName(e) == RemoveAll("buildkite" \o Get(e, "BUILDKITE_JOB_ID"), "-")

\* Mutant: each pair is put in front of the pairs gathered so far.
RECURSIVE FilePairs_Reversed(_)
FilePairs_Reversed(files) ==
    IF files = <<>> THEN <<>>
    ELSE FilePairs_Reversed(Tail(files)) \o <<"-f", Head(files)>>

\* the "-f", file pairs of one chunk of the compose file value
RECURSIVE FilePairs(_)
FilePairs(files) ==
    IF files = <<>> THEN <<>>
    ELSE <<"-f", Head(files)>> \o FilePairs(Tail(files))

RECURSIVE ChunkPairs(_)
ChunkPairs(chunks) ==
    IF chunks = <<>> THEN <<>>
    ELSE FilePairs(Split(Head(chunks), ":")) \o ChunkPairs(Tail(chunks))

composeFile(e) ==
    IF Get(e, "BUILDKITE_DOCKER_COMPOSE_FILE") = "" THEN "docker-compose.yml"
    ELSE Get(e, "BUILDKITE_DOCKER_COMPOSE_FILE")

\* argv of the sh.Run of runDockerCompose
runDockerCompose(e, project, commandArgs) ==
    <<"docker-compose">>
        \o ChunkPairs(Fields(composeFile(e)))
        \o <<"-p", project>>
        \o (IF GetBool(e, "BUILDKITE_AGENT_DEBUG", FALSE) THEN <<"--verbose">> ELSE <<>>)
        \o commandArgs

\* Mutant: the build-all flag is not consulted.
ComposeBuildArgs_AlwaysService(e) ==
    <<"build", "--pull", Get(e, "BUILDKITE_DOCKER_COMPOSE_CONTAINER")>>

ComposeBuildArgs(e) ==
    IF GetBool(e, "BUILDKITE_DOCKER_COMPOSE_BUILD_ALL", FALSE)
    THEN <<"build", "--pull">>
    ELSE <<"build", "--pull", Get(e, "BUILDKITE_DOCKER_COMPOSE_CONTAINER")>>

ComposeRunArgs(e, script) ==
    <<"run", Get(e, "BUILDKITE_DOCKER_COMPOSE_CONTAINER"), script>>

\* Mutant: the two branches of the leave-volumes test are swapped.
ComposeRmArgs_Swapped(e) ==
    IF GetBool(e, "BUILDKITE_DOCKER_COMPOSE_LEAVE_VOLUMES", FALSE)
    THEN <<"rm", "--force", "--all", "-v">>
    ELSE <<"rm", "--force", "--all">>

ComposeRmArgs(e) ==
    IF GetBool(e, "BUILDKITE_DOCKER_COMPOSE_LEAVE_VOLUMES", FALSE)
    THEN <<"rm", "--force", "--all">>
    ELSE <<"rm", "--force", "--all", "-v">>

\* Mutant: runDockerCommand writes the compose marker too.
SetDockerMarkers_AlsoCompose(e) ==
    Set(Set(Set(e, "DOCKER_CONTAINER", dockerContainer(e)), "DOCKER_IMAGE", dockerImage(e)),
        "COMPOSE_PROJ_NAME", projectName(e))

\* Mutant: runDockerCommand writes no marker.
SetDockerMarkers_Skipped(e) == e

\* the two sh.Env.Set of runDockerCommand
SetDockerMarkers(e) ==
    Set(Set(e, "DOCKER_CONTAINER", dockerContainer(e)), "DOCKER_IMAGE", dockerImage(e))

\* Mutant: writing the compose marker drops the docker one.
SetComposeMarker_ClearsDockerMarker(e) ==
    Remove(Set(e, "COMPOSE_PROJ_NAME", projectName(e)), "DOCKER_CONTAINER")

\* the sh.Env.Set of runDockerComposeCommand
SetComposeMarker(e) == Set(e, "COMPOSE_PROJ_NAME", projectName(e))

\* The error of a command: nil when it succeeded.
Error(r) == IF r = "ok" THEN "nil" ELSE ErrExit

\* Mutant: a failed docker build does not end runDockerCommand.
DockerBuildAborts_Never(r) == FALSE

\* "if err := sh.Run(docker build ...); err != nil { return err }"
DockerBuildAborts(r) == r # "ok"

\* the same test on the docker-compose build
ComposeBuildAborts(r) == r # "ok"

\* Mutant: the error of docker rm is dropped.
DockerRmReturn_Swallowed(r) == "nil"

\* what the teardown returns after its docker rm
DockerRmReturn(r) == Error(r)

(***************************************************************************)
(* State                                                                   *)
(***************************************************************************)
\* At the start of a job the environment holds the job id; the pipeline's
\* variables are added by SetEnv.
InitEnvs == { [k \in {"BUILDKITE_JOB_ID"} |-> job] : job \in JobIds }

CallRecord ==
    [op |-> op, mode |-> IntegrationMode(env0).kind, cmds |-> cmds, ret |-> ret,
     removed |-> removed]

Init ==
    /\ env \in InitEnvs
    /\ pc = "idle"
    /\ op = "none"
    /\ scriptPath = ""
    /\ env0 = env
    /\ cmds = <<>>
    /\ results = <<>>
    /\ warns = <<>>
    /\ ret = "nil"
    /\ prev = [op |-> "none", mode |-> "None", cmds |-> <<>>, ret |-> "nil", removed |-> {}]
    /\ sameEnv = FALSE
    /\ resources = {}
    /\ removed = {}
    /\ envChanges = 0
    /\ calls = 0
    /\ composePaths = <<>>

\* sh.Run: the command is appended to the call's log with its result
Issue(argv, r) ==
    /\ cmds' = Append(cmds, argv)
    /\ results' = Append(results, r)

Enter(o) ==
    /\ pc = "idle"
    /\ calls < MaxCalls
    /\ calls' = calls + 1
    /\ prev' = CallRecord
    /\ sameEnv' = (op # "none" /\ env = env0)
    /\ op' = o
    /\ env0' = env
    /\ cmds' = <<>>
    /\ results' = <<>>
    /\ removed' = {}

(***************************************************************************)
(* The pipeline changes a variable between two calls.                      *)
(***************************************************************************)
SetEnv(k, v) ==
    /\ pc = "idle"
    /\ envChanges < MaxEnvChanges
    /\ ~(Exists(env, k) /\ env[k] = v)
    /\ env' = Set(env, k, v)
    /\ envChanges' = envChanges + 1
    /\ UNCHANGED <<composePaths, pc, op, scriptPath, env0, cmds, results, warns, ret, prev, sameEnv, resources, removed, calls>>

UnsetEnv(k) ==
    /\ pc = "idle"
    /\ envChanges < MaxEnvChanges
    /\ Exists(env, k)
    /\ env' = Remove(env, k)
    /\ envChanges' = envChanges + 1
    /\ UNCHANGED <<composePaths, pc, op, scriptPath, env0, cmds, results, warns, ret, prev, sameEnv, resources, removed, calls>>

(***************************************************************************)
(* runDeprecatedDockerIntegration, up to its first sh.Run                  *)
(***************************************************************************)
RunIntegration(p) ==
    /\ Enter("run")
    /\ scriptPath \in {"", p}    \* a job has one command script
    /\ scriptPath' = p
    /\ UNCHANGED <<composePaths, resources, envChanges>>
    /\ IF Rel(Wd, p).err
       THEN /\ ret' = ErrRel
            /\ pc' = "idle"
            /\ warns' = <<>>
            /\ env' = env
       ELSE LET mode == IntegrationMode(env) IN
            CASE mode.kind = "DockerCompose" ->
                    /\ warns' = <<warnDeprecated("BUILDKITE_DOCKER_COMPOSE_CONTAINER")>>
                    /\ env' = SetComposeMarker(env)
                    /\ pc' = "compose_build"
                    /\ ret' = "pending"
              [] mode.kind = "Docker" ->
                    /\ warns' = <<warnDeprecated("BUILDKITE_DOCKER")>>
                    /\ env' = SetDockerMarkers(env)
                    /\ pc' = "docker_build"
                    /\ ret' = "pending"
              [] mode.kind = "Misconfigured" ->
                    /\ warns' = <<warnNotSet(mode.flag, "BUILDKITE_DOCKER_COMPOSE_CONTAINER")>>
                    /\ env' = env
                    /\ pc' = "idle"
                    /\ ret' = ErrNoDockerEnv
              [] OTHER ->
                    /\ warns' = <<>>
                    /\ env' = env
                    /\ pc' = "idle"
                    /\ ret' = ErrNoDockerEnv

(***************************************************************************)
(* runDockerCommand                                                        *)
(***************************************************************************)
DockerBuild(r) ==
    /\ pc = "docker_build"
    /\ Issue(DockerBuildCmd(env), r)
    /\ resources' = IF r = "ok" THEN resources \cup {<<"image", dockerImage(env)>>}
                    ELSE resources
    /\ pc' = IF DockerBuildAborts(r) THEN "idle" ELSE "docker_run"
    /\ ret' = IF DockerBuildAborts(r) THEN Error(r) ELSE "pending"
    /\ UNCHANGED <<composePaths, env, op, scriptPath, env0, warns, prev, sameEnv, removed, envChanges, calls>>

\* a docker run that fails may or may not have created its container
DockerRun(r, created) ==
    /\ pc = "docker_run"
    /\ r = "ok" => created
    /\ Issue(DockerRunCmd(env, relativePathToDot(scriptPath)), r)
    /\ resources' = IF created THEN resources \cup {<<"container", dockerContainer(env)>>}
                    ELSE resources
    /\ pc' = "idle"
    /\ ret' = Error(r)
    /\ UNCHANGED <<composePaths, env, op, scriptPath, env0, warns, prev, sameEnv, removed, envChanges, calls>>

(***************************************************************************)
(* runDockerComposeCommand                                                 *)
(***************************************************************************)
ComposeBuild(r) ==
    /\ pc = "compose_build"
    /\ Issue(runDockerCompose(env, projectName(env), ComposeBuildArgs(env)), r)
    /\ resources' = IF r = "ok" THEN resources \cup {<<"compose images", projectName(env)>>}
                    ELSE resources
    /\ pc' = IF ComposeBuildAborts(r) THEN "idle" ELSE "compose_run"
    /\ ret' = IF ComposeBuildAborts(r) THEN Error(r) ELSE "pending"
    /\ UNCHANGED <<composePaths, env, op, scriptPath, env0, warns, prev, sameEnv, removed, envChanges, calls>>

ComposeRun(r, created) ==
    /\ pc = "compose_run"
    /\ r = "ok" => created
    /\ Issue(runDockerCompose(env, projectName(env),
                              ComposeRunArgs(env, relativePathToDot(scriptPath))), r)
    /\ resources' = IF created
                    THEN resources \cup {<<"compose containers", projectName(env)>>}
                    ELSE resources
    /\ pc' = "idle"
    /\ ret' = Error(r)
    /\ UNCHANGED <<composePaths, env, op, scriptPath, env0, warns, prev, sameEnv, removed, envChanges, calls>>

(***************************************************************************)
(* tearDownDeprecatedDockerIntegration                                     *)
(***************************************************************************)
\* Mutant: the presence flag of COMPOSE_PROJ_NAME is not tested.
TearDownBranch_ComposeUntested(e) ==
    IF Exists(e, "DOCKER_CONTAINER") THEN "docker" ELSE "compose"

\* Mutant: COMPOSE_PROJ_NAME is tested before DOCKER_CONTAINER.
TearDownBranch_ComposeFirst(e) ==
    IF Exists(e, "COMPOSE_PROJ_NAME") THEN "compose"
    ELSE IF Exists(e, "DOCKER_CONTAINER") THEN "docker"
    ELSE "none"

\* the if / else if of tearDownDeprecatedDockerIntegration
TearDownBranch(e) ==
    IF Exists(e, "DOCKER_CONTAINER") THEN "docker"
    ELSE IF Exists(e, "COMPOSE_PROJ_NAME") THEN "compose"
    ELSE "none"

TearDown ==
    /\ Enter("teardown")
    /\ warns' = <<>>
    /\ UNCHANGED <<composePaths, env, scriptPath, resources, envChanges>>
    /\ CASE TearDownBranch(env) = "docker" -> pc' = "teardown_docker_rm" /\ ret' = "pending"
         [] TearDownBranch(env) = "compose" -> pc' = "teardown_kill" /\ ret' = "pending"
         [] OTHER -> pc' = "idle" /\ ret' = "nil"

\* a removal command that succeeds removes its target when it is there
Removal(r, target) ==
    /\ resources' = IF r = "ok" THEN resources \ target ELSE resources
    /\ removed' = IF r = "ok" THEN removed \cup (resources \cap target) ELSE removed

TearDownDockerRm(r) ==
    /\ pc = "teardown_docker_rm"
    /\ Issue(DockerRmCmd(Get(env, "DOCKER_CONTAINER")), r)
    /\ Removal(r, {<<"container", Get(env, "DOCKER_CONTAINER")>>})
    /\ pc' = "idle"
    /\ ret' = DockerRmReturn(r)
    /\ UNCHANGED <<composePaths, env, op, scriptPath, env0, warns, prev, sameEnv, envChanges, calls>>

TearDownKill(r) ==
    /\ pc = "teardown_kill"
    /\ Issue(runDockerCompose(env, Get(env, "COMPOSE_PROJ_NAME"), <<"kill">>), r)
    /\ pc' = "teardown_rm"
    /\ UNCHANGED <<composePaths, env, op, scriptPath, env0, warns, ret, prev, sameEnv, resources, removed,
                   envChanges, calls>>

\* rm removes the stopped containers: those the kill before it stopped
TearDownRm(r) ==
    /\ pc = "teardown_rm"
    /\ Issue(runDockerCompose(env, Get(env, "COMPOSE_PROJ_NAME"), ComposeRmArgs(env)), r)
    /\ Removal(r, IF results[Len(results)] = "ok"
                  THEN {<<"compose containers", Get(env, "COMPOSE_PROJ_NAME")>>}
                  ELSE {})
    /\ pc' = "teardown_down"
    /\ UNCHANGED <<composePaths, env, op, scriptPath, env0, warns, ret, prev, sameEnv, envChanges, calls>>

TearDownDown(r) ==
    /\ pc = "teardown_down"
    /\ Issue(runDockerCompose(env, Get(env, "COMPOSE_PROJ_NAME"), <<"down">>), r)
    /\ Removal(r, {<<"compose containers", Get(env, "COMPOSE_PROJ_NAME")>>})
    /\ pc' = "idle"
    /\ ret' = Error(r)
    /\ UNCHANGED <<composePaths, env, op, scriptPath, env0, warns, prev, sameEnv, envChanges, calls>>

(***************************************************************************)
(* Specification                                                           *)
(***************************************************************************)
Results == {"ok", "fail"}

Next ==
    \/ \E k \in ConfigVars : \E v \in EnvChoices[k] : SetEnv(k, v)
    \/ \E k \in ConfigVars : UnsetEnv(k)
    \/ \E p \in ScriptPaths : RunIntegration(p)
    \/ \E r \in Results : DockerBuild(r)
    \/ \E r \in Results, created \in BOOLEAN : DockerRun(r, created)
    \/ \E r \in Results : ComposeBuild(r)
    \/ \E r \in Results, created \in BOOLEAN : ComposeRun(r, created)
    \/ TearDown
    \/ \E r \in Results : TearDownDockerRm(r)
    \/ \E r \in Results : TearDownKill(r)
    \/ \E r \in Results : TearDownRm(r)
    \/ \E r \in Results : TearDownDown(r)

Spec == Init /\ [][Next]_vars

(***************************************************************************)
(* The compose file list: the same calls in Compose mode, started with     *)
(* BUILDKITE_DOCKER_COMPOSE_FILE written from a list of chunks of paths,   *)
(* or holding a value that is no such list.                                *)
(***************************************************************************)
Digits == "0123456789"

RECURSIVE NatStr(_)
NatStr(n) ==
    IF n < 10 THEN Char(Digits, n + 1)
    ELSE NatStr(n \div 10) \o Char(Digits, (n % 10) + 1)

PathName(n) == "f" \o NatStr(n) \o ".yml"

\* n chunks of m paths, all different
PathMatrix(n, m) == [i \in 1..n |-> [j \in 1..m |-> PathName((i - 1) * m + j)]]

RECURSIVE Join(_, _)
Join(strs, sep) ==
    IF strs = <<>> THEN ""
    ELSE IF Len(strs) = 1 THEN strs[1]
    ELSE strs[1] \o sep \o Join(Tail(strs), sep)

ChunkSeparators == {" ", "\t\n"}
Padding == {"", " "}

FileValue(matrix, sep, pad) ==
    pad \o Join([i \in 1..Len(matrix) |-> Join(matrix[i], ":")], sep) \o pad

\* values that are not a list of chunks of non-empty paths
OtherFileValues == {"", " ", " \t", ":a.yml", "a.yml:", "a.yml::b.yml"}

FileJobIds == JobIds \cup {"-a--b-"}

ComposeEnv(job) ==
    [k \in {"BUILDKITE_JOB_ID", "BUILDKITE_DOCKER_COMPOSE_CONTAINER"} |->
        IF k = "BUILDKITE_JOB_ID" THEN job ELSE "app"]

InitFiles ==
    /\ \E job \in FileJobIds :
          \/ \E n \in 1..MaxChunks, m \in 1..MaxPathsPerChunk,
                sep \in ChunkSeparators, pad \in Padding :
                /\ composePaths = PathMatrix(n, m)
                /\ env = Set(ComposeEnv(job), "BUILDKITE_DOCKER_COMPOSE_FILE",
                             FileValue(PathMatrix(n, m), sep, pad))
          \/ \E v \in OtherFileValues :
                /\ composePaths = <<>>
                /\ env = Set(ComposeEnv(job), "BUILDKITE_DOCKER_COMPOSE_FILE", v)
          \/ /\ composePaths = <<>>
             /\ env = ComposeEnv(job)
    /\ pc = "idle"
    /\ op = "none"
    /\ scriptPath = ""
    /\ env0 = env
    /\ cmds = <<>>
    /\ results = <<>>
    /\ warns = <<>>
    /\ ret = "nil"
    /\ prev = [op |-> "none", mode |-> "None", cmds |-> <<>>, ret |-> "nil", removed |-> {}]
    /\ sameEnv = FALSE
    /\ resources = {}
    /\ removed = {}
    /\ envChanges = 0
    /\ calls = 0

NextFiles ==
    \/ \E p \in ScriptPaths : RunIntegration(p)
    \/ \E r \in Results : ComposeBuild(r)
    \/ \E r \in Results, created \in BOOLEAN : ComposeRun(r, created)
    \/ TearDown
    \/ \E r \in Results : TearDownKill(r)
    \/ \E r \in Results : TearDownRm(r)
    \/ \E r \in Results : TearDownDown(r)

SpecFiles == InitFiles /\ [][NextFiles]_vars

(***************************************************************************)
(* Properties                                                              *)
(***************************************************************************)
Markers == {"DOCKER_CONTAINER", "DOCKER_IMAGE", "COMPOSE_PROJ_NAME"}

SameOn(k, e1, e2) == Exists(e1, k) = Exists(e2, k) /\ Get(e1, k) = Get(e2, k)

NoRecognizedVariable(e) ==
    /\ "BUILDKITE_DOCKER_COMPOSE_CONTAINER" \notin DOMAIN e
    /\ "BUILDKITE_DOCKER_COMPOSE_FILE" \notin DOMAIN e
    /\ "BUILDKITE_DOCKER" \notin DOMAIN e
    /\ "BUILDKITE_DOCKER_FILE" \notin DOMAIN e
    /\ "BUILDKITE_DOCKER_COMPOSE_BUILD_ALL" \notin DOMAIN e
    /\ "BUILDKITE_DOCKER_COMPOSE_LEAVE_VOLUMES" \notin DOMAIN e

\* C1: after a teardown that returned success, no container or image that
\* a run created remains on the docker host.
C1_TeardownRemovesEverything ==
    (op = "teardown" /\ pc = "idle" /\ ret = "nil") => resources = {}

C3_AtMostOneMarker ==
    ~(Exists(env, "DOCKER_CONTAINER") /\ Exists(env, "COMPOSE_PROJ_NAME"))

\* C3 (amended): no single call sets both markers: in every state where
\* both are set, one of them was already set when the current or last call
\* was entered.
C3_OneMarkerPerCall ==
    (Exists(env, "DOCKER_CONTAINER") /\ Exists(env, "COMPOSE_PROJ_NAME")) =>
        (Exists(env0, "DOCKER_CONTAINER") \/ Exists(env0, "COMPOSE_PROJ_NAME"))

C3_Witness ==
    /\ op = "run" /\ pc = "idle"
    /\ Exists(env, "DOCKER_CONTAINER") /\ Exists(env, "COMPOSE_PROJ_NAME")
    /\ Exists(env0, "DOCKER_CONTAINER") /\ ~Exists(env0, "COMPOSE_PROJ_NAME")

TwoTeardownsInARow ==
    /\ op = "teardown" /\ pc = "idle"
    /\ prev.op = "teardown"
    /\ sameEnv

\* C4 as claimed: a second teardown with the same environment issues the
\* commands of the first and returns no error, also after a first teardown
\* that succeeded and removed the resources.
C4_SecondTeardownSucceeds ==
    (TwoTeardownsInARow /\ prev.ret = "nil" /\ prev.removed # {}) =>
        /\ cmds = prev.cmds
        /\ ret = "nil"

\* C4 (amended): a second teardown with the same environment issues the
\* commands of the first, one docker rm in a Docker session and three
\* docker-compose commands in a Compose session, and returns the result of
\* its own last command: an error when that command fails.
C4_SecondTeardownRepeats ==
    TwoTeardownsInARow =>
        /\ cmds = prev.cmds
        /\ Len(cmds) = (IF Exists(env0, "DOCKER_CONTAINER") THEN 1
                        ELSE IF Exists(env0, "COMPOSE_PROJ_NAME") THEN 3 ELSE 0)
        /\ ret = (IF cmds = <<>> THEN "nil"
                  ELSE IF results[Len(results)] = "ok" THEN "nil" ELSE ErrExit)

C4_Witness ==
    /\ TwoTeardownsInARow
    /\ prev.ret = "nil"
    /\ Exists(env0, "DOCKER_CONTAINER")
    /\ prev.removed = {<<"container", env0["DOCKER_CONTAINER"]>>}
    /\ cmds = prev.cmds /\ Len(cmds) = 1
    /\ ret = ErrExit

\* C5: when BUILDKITE_DOCKER and BUILDKITE_DOCKER_COMPOSE_CONTAINER are both
\* set, the run sets COMPOSE_PROJ_NAME, issues docker-compose commands only
\* (at least the build) and leaves DOCKER_CONTAINER and DOCKER_IMAGE alone.
C5_ComposePrecedence ==
    (/\ op = "run"
     /\ Exists(env0, "BUILDKITE_DOCKER")
     /\ Exists(env0, "BUILDKITE_DOCKER_COMPOSE_CONTAINER")) =>
        /\ Exists(env, "COMPOSE_PROJ_NAME")
        /\ \A i \in 1..Len(cmds) : cmds[i][1] = "docker-compose"
        /\ pc \in {"compose_build", "compose_run", "idle"}
        /\ pc = "compose_build" => cmds = <<>>
        /\ pc # "compose_build" => Len(cmds) >= 1
        /\ SameOn("DOCKER_CONTAINER", env, env0)
        /\ SameOn("DOCKER_IMAGE", env, env0)

C5_Witness ==
    /\ op = "run" /\ pc = "idle"
    /\ Exists(env0, "BUILDKITE_DOCKER")
    /\ Exists(env0, "BUILDKITE_DOCKER_COMPOSE_CONTAINER")
    /\ ~Exists(env0, "COMPOSE_PROJ_NAME")
    /\ Exists(env, "COMPOSE_PROJ_NAME")
    /\ Len(cmds) = 2

ExpectedScript ==
    IF scriptPath = "/wd/script.sh" THEN "./script.sh" ELSE "./../tmp/hook.sh"

\* C6: a Docker-mode run for job J that succeeds has issued exactly
\* docker build -f <file> -t buildkite_J_image . and then
\* docker run --name buildkite_J_container buildkite_J_image <script>, with
\* <file> the value of BUILDKITE_DOCKER_FILE or Dockerfile when that is unset
\* or empty, and has set DOCKER_CONTAINER and DOCKER_IMAGE to these names.
C6_DockerSequence ==
    (/\ op = "run" /\ pc = "idle" /\ ret = "nil"
     /\ Exists(env0, "BUILDKITE_DOCKER")
     /\ ~Exists(env0, "BUILDKITE_DOCKER_COMPOSE_CONTAINER")) =>
        LET J == env0["BUILDKITE_JOB_ID"]
            file == IF "BUILDKITE_DOCKER_FILE" \in DOMAIN env0
                       /\ env0["BUILDKITE_DOCKER_FILE"] # ""
                    THEN env0["BUILDKITE_DOCKER_FILE"] ELSE "Dockerfile"
        IN  /\ cmds = << <<"docker", "build", "-f", file,
                           "-t", "buildkite_" \o J \o "_image", ".">>,
                         <<"docker", "run", "--name", "buildkite_" \o J \o "_container",
                           "buildkite_" \o J \o "_image", ExpectedScript>> >>
            /\ results = <<"ok", "ok">>
            /\ Exists(env, "DOCKER_CONTAINER")
            /\ env["DOCKER_CONTAINER"] = "buildkite_" \o J \o "_container"
            /\ Exists(env, "DOCKER_IMAGE")
            /\ env["DOCKER_IMAGE"] = "buildkite_" \o J \o "_image"

\* scenario A, and a run with an empty BUILDKITE_DOCKER_FILE
C6_Witness ==
    /\ op = "run" /\ pc = "idle" /\ ret = "nil"
    /\ Exists(env0, "BUILDKITE_DOCKER")
    /\ Exists(env0, "BUILDKITE_DOCKER_FILE") /\ env0["BUILDKITE_DOCKER_FILE"] = ""
    /\ cmds = << <<"docker", "build", "-f", "Dockerfile", "-t", "buildkite_42_image", ".">>,
                 <<"docker", "run", "--name", "buildkite_42_container",
                   "buildkite_42_image", "./script.sh">> >>
    /\ env["DOCKER_CONTAINER"] = "buildkite_42_container"

DependentFlags ==
    { "BUILDKITE_DOCKER_COMPOSE_FILE",
      "BUILDKITE_DOCKER_COMPOSE_BUILD_ALL",
      "BUILDKITE_DOCKER_COMPOSE_LEAVE_VOLUMES" }

OnlyDependentFlags(e) ==
    /\ \E k \in DependentFlags : k \in DOMAIN e
    /\ "BUILDKITE_DOCKER_COMPOSE_CONTAINER" \notin DOMAIN e
    /\ "BUILDKITE_DOCKER" \notin DOMAIN e

\* C7: with a dependent compose flag set and neither BUILDKITE_DOCKER nor
\* BUILDKITE_DOCKER_COMPOSE_CONTAINER, the run prints exactly one warning,
\* naming a dependent flag that is set and BUILDKITE_DOCKER_COMPOSE_CONTAINER,
\* returns an error, issues no command and writes no marker.
C7_MisconfiguredWarns ==
    (op = "run" /\ OnlyDependentFlags(env0)) =>
        /\ pc = "idle"
        /\ Len(warns) = 1
        /\ warns[1].fmt = "is set, but without, which it requires"
        /\ warns[1].args[1] \in DependentFlags
        /\ warns[1].args[1] \in DOMAIN env0
        /\ warns[1].args[2] = "BUILDKITE_DOCKER_COMPOSE_CONTAINER"
        /\ ret = ErrNoDockerEnv
        /\ cmds = <<>>
        /\ \A k \in Markers : SameOn(k, env, env0)

C7_Witness ==
    /\ op = "run" /\ pc = "idle"
    /\ DOMAIN env0 = {"BUILDKITE_JOB_ID", "BUILDKITE_DOCKER_COMPOSE_LEAVE_VOLUMES"}
    /\ warns = << [fmt |-> "is set, but without, which it requires",
                   args |-> <<"BUILDKITE_DOCKER_COMPOSE_LEAVE_VOLUMES",
                              "BUILDKITE_DOCKER_COMPOSE_CONTAINER">>] >>
    /\ ret = ErrNoDockerEnv

\* C8: the teardown that follows a Docker-mode run for job J issues exactly
\* one command, docker rm -f -v buildkite_J_container, and returns nil when
\* it succeeds and its error when it fails.
C8_DockerTeardown ==
    (op = "teardown" /\ prev.op = "run" /\ prev.mode = "Docker") =>
        LET J == env0["BUILDKITE_JOB_ID"] IN
        /\ pc \in {"teardown_docker_rm", "idle"}
        /\ pc = "teardown_docker_rm" => cmds = <<>>
        /\ pc = "idle" =>
            /\ cmds = << <<"docker", "rm", "-f", "-v", "buildkite_" \o J \o "_container">> >>
            /\ ret = (IF results[1] = "ok" THEN "nil" ELSE ErrExit)

\* scenario C after a run whose build failed, with a failing docker rm
C8_Witness ==
    /\ op = "teardown" /\ pc = "idle"
    /\ prev.op = "run" /\ prev.mode = "Docker" /\ prev.ret = ErrExit
    /\ cmds = << <<"docker", "rm", "-f", "-v", "buildkite_42_container">> >>
    /\ ret = ErrExit

HasSuffix(argv, suf) ==
    /\ Len(argv) >= Len(suf)
    /\ SubSeq(argv, Len(argv) - Len(suf) + 1, Len(argv)) = suf

\* the i-th subcommand the claim expects of a Compose teardown
ExpectedComposeCleanup(i) ==
    CASE i = 1 -> <<"kill">>
      [] i = 2 -> IF "BUILDKITE_DOCKER_COMPOSE_LEAVE_VOLUMES" \in DOMAIN env0
                     /\ env0["BUILDKITE_DOCKER_COMPOSE_LEAVE_VOLUMES"] = "true"
                  THEN <<"rm", "--force", "--all">>
                  ELSE <<"rm", "--force", "--all", "-v">>
      [] OTHER -> <<"down">>

\* C9: a teardown with COMPOSE_PROJ_NAME set and DOCKER_CONTAINER unset
\* issues docker-compose kill, rm --force --all (with -v unless
\* BUILDKITE_DOCKER_COMPOSE_LEAVE_VOLUMES is true) and down, in this order
\* and whatever their results, each with -p <COMPOSE_PROJ_NAME>, and returns
\* the result of down.
C9_ComposeTeardown ==
    (/\ op = "teardown"
     /\ Exists(env0, "COMPOSE_PROJ_NAME")
     /\ ~Exists(env0, "DOCKER_CONTAINER")) =>
        /\ Len(cmds) = (CASE pc = "teardown_kill" -> 0
                          [] pc = "teardown_rm" -> 1
                          [] pc = "teardown_down" -> 2
                          [] pc = "idle" -> 3
                          [] OTHER -> 4)
        /\ \A i \in 1..Len(cmds) :
              /\ cmds[i][1] = "docker-compose"
              /\ \/ HasSuffix(cmds[i], <<"-p", env0["COMPOSE_PROJ_NAME"]>>
                                        \o ExpectedComposeCleanup(i))
                 \/ HasSuffix(cmds[i], <<"-p", env0["COMPOSE_PROJ_NAME"], "--verbose">>
                                        \o ExpectedComposeCleanup(i))
        /\ pc = "idle" => ret = (IF results[3] = "ok" THEN "nil" ELSE ErrExit)

\* kill and rm failed, down succeeded, volumes left
C9_Witness ==
    /\ op = "teardown" /\ pc = "idle"
    /\ Exists(env0, "COMPOSE_PROJ_NAME") /\ ~Exists(env0, "DOCKER_CONTAINER")
    /\ Exists(env0, "BUILDKITE_DOCKER_COMPOSE_LEAVE_VOLUMES")
    /\ results = <<"fail", "fail", "ok">>
    /\ ret = "nil"
    /\ HasSuffix(cmds[2], <<"rm", "--force", "--all">>)

IsBuild(argv) ==
    \/ argv[1] = "docker" /\ argv[2] = "build"
    \/ argv[1] = "docker-compose" /\ \E j \in 2..Len(argv) : argv[j] = "build"

\* C10: when the build command of a run fails, the run has returned that
\* failure and the build is the only command it issued.
C10_BuildFailureAborts ==
    (op = "run" /\ Len(results) >= 1 /\ results[1] = "fail") =>
        /\ pc = "idle"
        /\ Len(cmds) = 1
        /\ IsBuild(cmds[1])
        /\ ret = ErrExit

C10_Witness ==
    /\ op = "run" /\ pc = "idle"
    /\ results = <<"fail">>
    /\ cmds[1][1] = "docker-compose"
    /\ ret = ErrExit

\* C11: a teardown entered with neither DOCKER_CONTAINER nor
\* COMPOSE_PROJ_NAME set returns at once: no command, no error, and the
\* environment as it was.
C11_TeardownNoOp ==
    [][ (/\ calls' # calls
         /\ op' = "teardown"
         /\ "DOCKER_CONTAINER" \notin DOMAIN env
         /\ "COMPOSE_PROJ_NAME" \notin DOMAIN env) =>
            (/\ pc' = "idle"
             /\ cmds' = <<>>
             /\ ret' = "nil"
             /\ env' = env) ]_vars

C11_Witness ==
    /\ op = "teardown" /\ pc = "idle"
    /\ "DOCKER_CONTAINER" \notin DOMAIN env0
    /\ "COMPOSE_PROJ_NAME" \notin DOMAIN env0
    /\ Exists(env0, "BUILDKITE_DOCKER_COMPOSE_LEAVE_VOLUMES")
    /\ cmds = <<>>
    /\ ret = "nil"

\* the paths of composePaths in the order they were written
FlatPaths ==
    LET m == Len(composePaths[1]) IN
    [k \in 1..(Len(composePaths) * m) |->
        composePaths[((k - 1) \div m) + 1][((k - 1) % m) + 1]]

\* C12: when BUILDKITE_DOCKER_COMPOSE_FILE was written from N chunks of M
\* paths, every docker-compose command starts with the N*M pairs -f <path>,
\* in the order written, followed by -p, and has no other -f.
C12_ComposeFilePairs ==
    composePaths # <<>> =>
        \A i \in 1..Len(cmds) :
            LET argv == cmds[i]
                n == Len(FlatPaths)
            IN  /\ argv[1] = "docker-compose"
                /\ Len(argv) >= 2 * n + 3
                /\ \A k \in 1..n : argv[2 * k] = "-f" /\ argv[2 * k + 1] = FlatPaths[k]
                /\ argv[2 * n + 2] = "-p"
                /\ \A j \in (2 * n + 2)..Len(argv) : argv[j] # "-f"

C12_Witness ==
    /\ composePaths = <<  <<"f1.yml", "f2.yml">>, <<"f3.yml", "f4.yml">> >>
    /\ env["BUILDKITE_DOCKER_COMPOSE_FILE"] = " f1.yml:f2.yml\t\nf3.yml:f4.yml "
    /\ op = "teardown" /\ pc = "idle"
    /\ Len(cmds) = 3
    /\ SubSeq(cmds[3], 1, 10) =
          <<"docker-compose", "-f", "f1.yml", "-f", "f2.yml", "-f", "f3.yml",
            "-f", "f4.yml", "-p">>

NoHyphen(s) == \A i \in 1..Len(s) : SubSeq(s, i, i) # "-"

ExpectedProjectName(job) ==
    CASE job = "42" -> "buildkite42"
      [] job = "abc-123-def" -> "buildkiteabc123def"
      [] job = "-a--b-" -> "buildkiteab"

ComposeTail(argv, project, sub) ==
    \/ HasSuffix(argv, <<"-p", project>> \o sub)
    \/ HasSuffix(argv, <<"-p", project, "--verbose">> \o sub)

\* C14: a Compose-mode run for service S issues build --pull (without a
\* service when BUILDKITE_DOCKER_COMPOSE_BUILD_ALL is true, with S
\* otherwise), then, only after a successful build, run S <script>, whose
\* result it returns; it issues nothing else and removes nothing.
C14_ComposeSequence ==
    (op = "run" /\ Exists(env0, "BUILDKITE_DOCKER_COMPOSE_CONTAINER")) =>
        LET S == env0["BUILDKITE_DOCKER_COMPOSE_CONTAINER"]
            all == /\ "BUILDKITE_DOCKER_COMPOSE_BUILD_ALL" \in DOMAIN env0
                   /\ env0["BUILDKITE_DOCKER_COMPOSE_BUILD_ALL"] = "true"
            P == Get(env, "COMPOSE_PROJ_NAME")
        IN  /\ Len(cmds) <= 2
            /\ \A i \in 1..Len(cmds) : cmds[i][1] = "docker-compose"
            /\ Len(cmds) >= 1 =>
                  ComposeTail(cmds[1], P, IF all THEN <<"build", "--pull">>
                                          ELSE <<"build", "--pull", S>>)
            /\ Len(cmds) = 2 =>
                  /\ results[1] = "ok"
                  /\ ComposeTail(cmds[2], P, <<"run", S, ExpectedScript>>)
                  /\ pc = "idle"
                  /\ ret = (IF results[2] = "ok" THEN "nil" ELSE ErrExit)
            /\ (Len(cmds) = 1 /\ results[1] = "ok") => pc = "compose_run"
            /\ removed = {}

\* build all, and a failed run that leaves its containers
C14_Witness ==
    /\ op = "run" /\ pc = "idle"
    /\ Exists(env0, "BUILDKITE_DOCKER_COMPOSE_CONTAINER")
    /\ Exists(env0, "BUILDKITE_DOCKER_COMPOSE_BUILD_ALL")
    /\ env0["BUILDKITE_DOCKER_COMPOSE_BUILD_ALL"] = "true"
    /\ cmds = << <<"docker-compose", "-f", "docker-compose.yml", "-p", "buildkite42",
                   "build", "--pull">>,
                 <<"docker-compose", "-f", "docker-compose.yml", "-p", "buildkite42",
                   "run", "app", "./script.sh">> >>
    /\ ret = ErrExit
    /\ <<"compose containers", "buildkite42">> \in resources

\* C15: a step of the bridge (any step that is not the pipeline changing a
\* variable) removes no environment entry and changes or adds none but
\* DOCKER_CONTAINER, DOCKER_IMAGE and COMPOSE_PROJ_NAME; a step of the
\* teardown leaves the environment as it is, so a marker that is set stays
\* set over every teardown.
C15_EnvOnlyGrows ==
    [][ envChanges' = envChanges =>
          /\ DOMAIN env \subseteq DOMAIN env'
          /\ \A k \in DOMAIN env' \ Markers : k \in DOMAIN env /\ env'[k] = env[k]
          /\ op' = "teardown" => env' = env
          /\ op' = "teardown" =>
                \A k \in Markers \cap DOMAIN env : k \in DOMAIN env' /\ env'[k] = env[k] ]_vars

\* two teardowns after a Compose run, the marker still there
C15_Witness ==
    /\ TwoTeardownsInARow
    /\ Exists(env, "COMPOSE_PROJ_NAME")
    /\ env["COMPOSE_PROJ_NAME"] = "buildkite42"
    /\ Exists(env, "BUILDKITE_DOCKER_COMPOSE_CONTAINER")
    /\ Len(cmds) = 3

\* C16: the marker of the mode is written before the first command of the
\* run: before the build is issued it is already set, and it is set in every
\* state where the run has issued a command; a teardown that follows a run
\* whose build failed finds it and issues its removal commands.
C16_MarkerBeforeCommand ==
    /\ pc = "docker_build" => cmds = <<>> /\ "DOCKER_CONTAINER" \in DOMAIN env
    /\ pc = "compose_build" => cmds = <<>> /\ "COMPOSE_PROJ_NAME" \in DOMAIN env
    /\ (op = "run" /\ cmds # <<>>) =>
          /\ cmds[1][1] = "docker" => "DOCKER_CONTAINER" \in DOMAIN env
          /\ cmds[1][1] = "docker-compose" => "COMPOSE_PROJ_NAME" \in DOMAIN env
          /\ cmds[1][1] \in {"docker", "docker-compose"}
    /\ (/\ op = "teardown" /\ pc = "idle"
        /\ prev.op = "run" /\ Len(prev.cmds) = 1 /\ prev.ret # "nil") =>
          /\ cmds # <<>>
          /\ prev.cmds[1][1] = "docker" =>
                cmds = << <<"docker", "rm", "-f", "-v", env0["DOCKER_CONTAINER"]>> >>
          /\ (prev.cmds[1][1] = "docker-compose" /\ "DOCKER_CONTAINER" \notin DOMAIN env0) =>
                /\ Len(cmds) = 3
                /\ ComposeTail(cmds[1], env0["COMPOSE_PROJ_NAME"], <<"kill">>)

\* the build failed, nothing exists, and the teardown still runs docker rm
C16_Witness ==
    /\ op = "teardown" /\ pc = "idle" /\ calls = 2
    /\ prev.op = "run"
    /\ prev.cmds = << <<"docker", "build", "-f", "Dockerfile", "-t",
                        "buildkite_42_image", ".">> >>
    /\ prev.ret = ErrExit
    /\ resources = {} /\ removed = {}
    /\ cmds = << <<"docker", "rm", "-f", "-v", "buildkite_42_container">> >>

\* C17 as claimed: whenever hasDeprecatedDockerIntegration is true of the
\* environment, a finished run has issued a command or printed a "set
\* without its prerequisite" warning.
C17_DetectionAgreesWithRun ==
    (op = "run" /\ pc = "idle" /\ hasDeprecatedDockerIntegration(env0)) =>
        \/ cmds # <<>>
        \/ \E i \in 1..Len(warns) : warns[i].fmt = "is set, but without, which it requires"

\* C18: with both markers set the teardown issues docker rm -f -v
\* <container> and nothing else, removes nothing of the compose project and
\* leaves both markers set, so the next teardown does the same.
C18_DockerMarkerShadowsCompose ==
    (/\ op = "teardown"
     /\ "DOCKER_CONTAINER" \in DOMAIN env0
     /\ "COMPOSE_PROJ_NAME" \in DOMAIN env0) =>
        /\ Len(cmds) <= 1
        /\ pc = "idle" => Len(cmds) = 1
        /\ \A i \in 1..Len(cmds) :
              cmds[i] = <<"docker", "rm", "-f", "-v", env0["DOCKER_CONTAINER"]>>
        /\ \A x \in removed : x[1] = "container"
        /\ "DOCKER_CONTAINER" \in DOMAIN env
        /\ "COMPOSE_PROJ_NAME" \in DOMAIN env

\* the compose containers outlive a teardown that succeeded
C18_Witness ==
    /\ op = "teardown" /\ pc = "idle"
    /\ Exists(env0, "DOCKER_CONTAINER") /\ Exists(env0, "COMPOSE_PROJ_NAME")
    /\ env = env0
    /\ cmds = << <<"docker", "rm", "-f", "-v", "buildkite_42_container">> >>
    /\ ret = "nil"
    /\ <<"compose containers", "buildkite42">> \in resources

\* C19 as claimed: every docker-compose invocation carries at least one
\* -f, and every -f is followed by a path that is not empty.
C19_EveryInvocationHasFile ==
    \A i \in 1..Len(cmds) :
        cmds[i][1] = "docker-compose" =>
            /\ \E j \in 1..Len(cmds[i]) : cmds[i][j] = "-f"
            /\ \A j \in 1..Len(cmds[i]) :
                  cmds[i][j] = "-f" => (j < Len(cmds[i]) /\ cmds[i][j + 1] # "")

====
